---- MODULE Spec2Model ----
(***************************************************************************)
(* A model of src/src/runner.ts: the Runner that drives one sus-host test  *)
(* session.  The state is the Runner's fields (tests, child, finished),    *)
(* the calls it has made on the vscode.TestRun (reports, output), what it  *)
(* wrote to the child's stdin, and the environment it reacts to: the child *)
(* process, the lines in flight on the child's stdout, the cancellation    *)
(* token.  Every action is one callback or one synchronous stretch of a    *)
(* method, which JavaScript runs to completion.                            *)
(***************************************************************************)
EXTENDS Integers, Sequences, FiniteSets, TLC

VARIABLES
    pc,           \* position of the caller: "new", "open", "awaiting", "done", or
                  \* "rejected" when Runner.open failed
    tests0,       \* the tests object handed to Runner.open, as supplied
    tests,        \* this.tests: <<[key, item]>>, its own properties in property order
    prototype,    \* the prototype of the tests object the caller built
    child,        \* the OS process: "none", "running", "terminated", "spawnFailed"
    exitCode,     \* code the terminated process reports: <<>> is null, <<n>> a number
    exitSeen,     \* the 'exit' event has been emitted to the Runner
    killed,       \* child.killed: a kill() call has sent its signal
    finished,     \* this.finished: the promise's state
    settles,      \* number of resolve()/reject() calls made on this.finished
    token,        \* the CancellationToken: "none", "armed", "fired"
    cancelHit,    \* the cancellation listener ran while the process was alive
    disposeCalls, \* number of dispose() calls counted
    errorsSeen,   \* number of 'error' events emitted by the child
    wire,         \* lines written by the host, not yet read by ndjson.parse()
    consumed,     \* lines ndjson.parse() has read, oldest first
    parser,       \* the ndjson.parse() stream: "ok" or "broken"
    uncaught,     \* number of errors that reached no handler
    applied,      \* the records handed to onData, oldest first
    reports,      \* calls made on testRun other than appendOutput, oldest first
    output,       \* testRun.appendOutput calls, oldest first
    stdinLog,     \* objects written to this.output (the child's stdin)
    stdinEnded,   \* child.stdin.end() has been called
    stdinWrite,   \* the run message on child.stdin: "none" (no child took it),
                  \* "written", "failed" (the child's stdin reported an error)
    emitted       \* every line the host has written, oldest first

vars == <<pc, tests0, tests, prototype, child, exitCode, exitSeen, killed, finished, settles,
          token, cancelHit, disposeCalls, errorsSeen, wire, consumed, parser,
          uncaught, applied, reports, output, stdinLog, stdinEnded,
          stdinWrite, emitted>>

----------------------------------------------------------------------------
(* Bounds of the model. *)

MaxTests == 2      \* identities requested in one session
MaxLines == 2      \* what a spawned child gives in one session before its exit:
                   \* lines of its stdout, chunks of its stderr, runtime errors
MaxDispose == 2    \* dispose() calls counted in one session
MaxCounts == 3     \* slots of the counts array of a coverage event

----------------------------------------------------------------------------
(* JavaScript values. *)

Undefined == "undefined"
Null == <<>>
Some(v) == <<v>>

\* if (x): undefined and the empty string are falsy, other strings truthy.
Truthy(s) == s \notin {Undefined, ""}

Identities == {"A", "B"}

\* The tests object is an object literal, which inherits from Object.prototype,
\* or an object without prototype.  tests[key] of a key that is no own property
\* is looked up in the prototype.
ObjectPrototype == "Object.prototype"
NullPrototype == "null"
Prototypes == {ObjectPrototype, NullPrototype}
InheritedKeys ==
    {"constructor", "__defineGetter__", "__defineSetter__", "hasOwnProperty",
     "__lookupGetter__", "__lookupSetter__", "isPrototypeOf", "propertyIsEnumerable",
     "toString", "valueOf", "__proto__", "toLocaleString"}
Inherited(key) == "inherited:" \o key
\* The vscode.TestItem the caller stored under an identity.
TestItem(id) == "item:" \o id

Range(s) == {s[i] : i \in 1..Len(s)}
NoDup(s) == \A i, j \in 1..Len(s) : i # j => s[i] # s[j]
SeqsUpTo(S, n) == UNION {[1..k -> S] : k \in 0..n}

\* A Tests object: its own properties in property order.
TestsOf(keys) == [i \in 1..Len(keys) |-> [key |-> keys[i], item |-> TestItem(keys[i])]]
TestsInputs == {TestsOf(ks) : ks \in {s \in SeqsUpTo(Identities, MaxTests) : NoDup(s)}}

----------------------------------------------------------------------------
(* Text: a sequence of tokens, a token being a piece of text without a line *)
(* break, or one of the two line breaks.                                    *)

LF == "LF"
CRLF == "CRLF"

\* text.split(/\r?\n/).join("\r\n"): every line break becomes "\r\n".
NormalizeLines(text) == [i \in 1..Len(text) |-> IF text[i] = LF THEN CRLF ELSE text[i]]

\* `${code}` of an exit code.
CodeText(code) == IF code = Null THEN "null" ELSE ToString(code[1])

ExitLine(code) == <<"Test host exited with code ", CodeText(code), CRLF>>
\* The message of the Error the promise is rejected with.
ExitError(code) == <<"Test host exited with code ", CodeText(code)>>
RunningLine == <<"Running tests in ", "workspace", "...", CRLF>>
ErrorText == <<"spawn error">>
\* A chunk the host writes to its stderr.
StderrText == <<"warning: noise", LF>>

\* One testRun.appendOutput(text, location, test) call.
OutputCall(text, location, test) == [text |-> text, location |-> location, test |-> test]

\* Runner.appendOutput
AppendOutput(out, text) == Append(out, OutputCall(NormalizeLines(text), Null, Undefined))

----------------------------------------------------------------------------
(* The records the host writes, one JSON object per line.  A field the     *)
(* object lacks is Undefined (strings), Null (optional values) or <<>>.    *)

\* A JSON value found under "message" or in "messages": a string, or an object
\* {text, location?, actual?, expected?}.
JsonString(s) ==
    [type |-> "string", text |-> s, actual |-> Undefined, expected |-> Undefined,
     location |-> Null]
MessageObject(text, actual, expected, location) ==
    [type |-> "object", text |-> text, actual |-> actual, expected |-> expected,
     location |-> location]

NoData ==
    [started |-> Undefined, inform |-> Undefined, passed |-> Undefined,
     failed |-> Undefined, errored |-> Undefined, finished |-> Undefined,
     coverage |-> Undefined, duration |-> Null, message |-> Null, messages |-> Null,
     counts |-> Null]

Json(data) == [malformed |-> FALSE, data |-> data]
Malformed == [malformed |-> TRUE, data |-> NoData]

Boom == MessageObject("boom", Undefined, Undefined, Null)

StartedA == Json([NoData EXCEPT !.started = "A"])
InformA == Json([NoData EXCEPT !.inform = "A", !.message = Some(Boom)])
PassedA == Json([NoData EXCEPT !.passed = "A", !.duration = Some(12)])
FailedB == Json([NoData EXCEPT !.failed = "B", !.messages = Some(<<Boom>>),
                               !.duration = Some(3)])
Finished == Json([NoData EXCEPT !.finished = "true", !.message = Some(JsonString("done"))])

\* The lines a host writes in this model.
Lines == {StartedA, PassedA, FailedB, Malformed}

\* The lines of a host that speaks the protocol, the finished event included, and
\* a finished event without its message.
FinishedBare == Json([NoData EXCEPT !.finished = "true"])
EventLines == {StartedA, InformA, PassedA, FailedB, Finished, FinishedBare}

\* Messages: with or without actual and expected, which may be falsy values (the
\* empty string stands for them), with or without a location and its column.
Location(line, column) == Some([path |-> "test/a.rb", line |-> line, column |-> column])
Locations == {Null, Location(10, Null), Location(1, Some(0)), Location(3, Some(4)),
              Location(0, Null)}
MessageVariants ==
    {MessageObject("boom", a, e, l) : a \in {Undefined, "", "1"}, e \in {Undefined, "", "2"},
                                     l \in Locations}

\* Coverage events: every counts array of up to MaxCounts slots.
CountValues == {Null, Some(0), Some(3)}
CoverageOf(counts) == Json([NoData EXCEPT !.coverage = "lib/a.rb", !.counts = Some(counts)])
\* A coverage event without counts.
CoverageBare == Json([NoData EXCEPT !.coverage = "lib/a.rb"])

\* Events whose message is a JSON string, and events for identities that were
\* not requested, two of them names that Object.prototype defines.
Done == JsonString("done")
StringMessageLines ==
    {Json([NoData EXCEPT !.failed = "A", !.message = Some(Done), !.duration = Some(3)]),
     Json([NoData EXCEPT !.errored = "A", !.messages = Some(<<Done, Boom>>),
                         !.duration = Some(3)]),
     Json([NoData EXCEPT !.inform = "A", !.message = Some(Done)])}
UnknownIdentityLines ==
    {Json([NoData EXCEPT !.passed = "constructor", !.duration = Some(3)]),
     Json([NoData EXCEPT !.started = "toString"]),
     Json([NoData EXCEPT !.passed = "Z", !.duration = Some(3)])}

\* The lines that carry messages or counts.
PureLines ==
    {Json([NoData EXCEPT !.failed = "A", !.message = Some(m), !.duration = Some(3)]) :
        m \in MessageVariants}
    \cup {Json([NoData EXCEPT !.errored = "A", !.messages = Some(<<m, Boom>>),
                              !.duration = Some(3)]) : m \in MessageVariants}
    \cup {Json([NoData EXCEPT !.inform = "A", !.message = Some(m)]) : m \in MessageVariants}
    \cup {CoverageOf(counts) : counts \in SeqsUpTo(CountValues, MaxCounts)}
    \cup {CoverageBare} \cup StringMessageLines \cup UnknownIdentityLines

ExitCodes == {Some(0), Some(1), Null}
\* The codes of a host that ends by itself.
OwnExitCodes == {Some(0), Some(1)}

----------------------------------------------------------------------------
(* Runner's helpers. *)

\* Object.keys(tests)
ObjectKeys(ts) == [i \in 1..Len(ts) |-> ts[i].key]

\* tests[identity]: the own property, or else what the prototype defines.
Lookup(ts, identity) ==
    IF \E i \in 1..Len(ts) : ts[i].key = identity
    THEN (CHOOSE e \in Range(ts) : e.key = identity).item
    ELSE IF prototype = ObjectPrototype /\ identity \in InheritedKeys
    THEN Inherited(identity)
    ELSE Undefined

\* A delete that empties the object.
DeleteAll(ts, identity) == <<>>

\* delete tests[identity]: the other properties keep their order.
Delete(ts, identity) == SelectSeq(ts, LAMBDA e : e.key # identity)

\* popTest without its delete.
PopTestKeeps(ts, identity) == [test |-> Lookup(ts, identity), tests |-> ts]

\* Runner.popTest
PopTest(ts, identity) == [test |-> Lookup(ts, identity), tests |-> Delete(ts, identity)]

\* What a call gives: the value it returns, or that it threw.
Returned(v) == [threw |-> FALSE, value |-> v]
Thrown == [threw |-> TRUE, value |-> <<>>]

\* new vscode.Position(line, character) rejects a negative argument.
IllegalPosition(line, character) == line < 0 \/ character < 0

\* Runner.messageBodyFor: data.text of a JSON string is undefined.
MessageBodyFor(m) == IF m.type = "object" /\ Truthy(m.text) THEN m.text ELSE Undefined

\* locationFor without the conversion to a 0-based line.
LocationForRaw(m) ==
    IF m.location = Null THEN Returned(Null)
    ELSE LET line == m.location[1].line
             column == IF m.location[1].column # Null /\ m.location[1].column[1] # 0
                       THEN m.location[1].column[1] ELSE 0
         IN  IF IllegalPosition(line, column) THEN Thrown
             ELSE Returned(Some([path |-> m.location[1].path, line |-> line,
                                 column |-> column]))

\* Runner.locationFor
LocationFor(m) ==
    IF m.location = Null THEN Returned(Null)
    ELSE LET line == m.location[1].line - 1
             column == IF m.location[1].column # Null /\ m.location[1].column[1] # 0
                       THEN m.location[1].column[1] ELSE 0
         IN  IF IllegalPosition(line, column) THEN Thrown
             ELSE Returned(Some([path |-> m.location[1].path, line |-> line,
                                 column |-> column]))

\* Runner.messageFor.  TestMessage.diff(message, expected, actual) is called with
\* (body, data.actual, data.expected): the message's expectedOutput is the wire's
\* actual and its actualOutput the wire's expected.
MessageFor(m) ==
    LET location == LocationFor(m)
    IN  IF location.threw THEN Thrown
        ELSE IF Truthy(m.actual) /\ Truthy(m.expected)
        THEN Returned([kind |-> "diff", message |-> MessageBodyFor(m),
                       expectedOutput |-> m.actual, actualOutput |-> m.expected,
                       location |-> location.value])
        ELSE Returned([kind |-> "plain", message |-> MessageBodyFor(m),
                       expectedOutput |-> Undefined, actualOutput |-> Undefined,
                       location |-> location.value])

\* if (data.message): an absent message and the empty string are falsy.
MessageTruthy(opt) == opt # Null /\ ~(opt[1].type = "string" /\ opt[1].text = "")

\* Runner.messagesFor: the messages, unless messageFor threw for one of them.
MessagesFor(data) ==
    LET src == IF MessageTruthy(data.message) THEN <<data.message[1]>>
               ELSE IF data.messages # Null THEN data.messages[1] ELSE <<>>
        made == [i \in 1..Len(src) |-> MessageFor(src[i])]
    IN  IF \E i \in 1..Len(src) : made[i].threw THEN Thrown
        ELSE Returned([i \in 1..Len(src) |-> made[i].value])

\* One call on testRun other than appendOutput.
Report(op, item, messages, duration) ==
    [op |-> op, item |-> item, messages |-> messages, duration |-> duration]

\* skipRemainingTests over every requested test instead of the remaining ones.
SkipRequestedTests(ts) == [i \in 1..Len(tests0) |-> Report("skipped", tests0[i].item, <<>>, Null)]

\* Runner.skipRemainingTests: one skipped() per remaining property, in order.
SkipRemainingTests(ts) == [i \in 1..Len(ts) |-> Report("skipped", ts[i].item, <<>>, Null)]

\* Runner.addCoverage: the loop that builds the StatementCoverage entries.
\* counts[i] is the slot of JavaScript index i - 1, whose entry is at line
\* (i - 1) - 1; the loop stops at the first slot whose Position is rejected.
StatementCoverage(counts) ==
    LET present == SelectSeq([i \in 1..Len(counts) |-> i], LAMBDA i : counts[i] # Null)
    IN  IF \E k \in 1..Len(present) : IllegalPosition((present[k] - 1) - 1, 0) THEN Thrown
        ELSE Returned([k \in 1..Len(present) |->
                [count |-> counts[present[k]][1], line |-> (present[k] - 1) - 1,
                 column |-> 0]])

\* What a handler leaves behind: the fields of the Runner and of the TestRun it
\* may touch, and whether it threw.
Effect(ts, rs, out, ended, threw) ==
    [tests |-> ts, reports |-> rs, output |-> out, stdinEnded |-> ended, threw |-> threw]

\* Runner.inform: one appendOutput per message; message.message.toString() throws
\* on a message without a body, after the earlier messages were appended.
RECURSIVE InformFrom(_, _, _, _)
InformFrom(msgs, k, test, st) ==
    IF k > Len(msgs) THEN st
    ELSE IF msgs[k].message = Undefined THEN [st EXCEPT !.threw = TRUE]
    ELSE InformFrom(msgs, k + 1, test,
            [st EXCEPT !.output =
                Append(@, OutputCall(<<msgs[k].message>>, msgs[k].location, test))])
\* inform that takes the test out of this.tests.
InformPops(data, st) ==
    LET msgs == MessagesFor(data)
    IN  IF msgs.threw THEN [st EXCEPT !.threw = TRUE, !.tests = Delete(@, data.inform)]
        ELSE InformFrom(msgs.value, 1, Lookup(st.tests, data.inform),
                        [st EXCEPT !.tests = Delete(@, data.inform)])

\* Runner.inform: messagesFor runs before the first appendOutput.
Inform(data, st) ==
    LET msgs == MessagesFor(data)
    IN  IF msgs.threw THEN [st EXCEPT !.threw = TRUE]
        ELSE InformFrom(msgs.value, 1, Lookup(st.tests, data.inform), st)

\* The terminal branches of onData: popTest, then messagesFor, then the report.
\* When messagesFor throws the test is removed and nothing is reported.
Terminal(op, identity, data, st) ==
    LET popped == PopTest(st.tests, identity)
        msgs == IF op = "passed" THEN Returned(<<>>) ELSE MessagesFor(data)
    IN  IF msgs.threw THEN [st EXCEPT !.tests = popped.tests, !.threw = TRUE]
        ELSE [st EXCEPT !.tests = popped.tests,
                        !.reports = Append(@, Report(op, popped.test, msgs.value,
                                                     data.duration))]

\* Runner.addCoverage: data.counts.length throws without counts; the entries,
\* then testRun.addCoverage.
AddCoverage(data, st) ==
    IF data.counts = Null THEN [st EXCEPT !.threw = TRUE]
    ELSE LET entries == StatementCoverage(data.counts[1])
         IN  IF entries.threw THEN [st EXCEPT !.threw = TRUE]
             ELSE [st EXCEPT !.reports =
                     Append(@, Report("addCoverage", data.coverage, entries.value, Null))]

\* A finished branch that also forgets the pending tests.
FinishedDropsTests(data, st) ==
    IF data.message = Null \/ data.message[1].type # "string"
    THEN [st EXCEPT !.threw = TRUE]
    ELSE [st EXCEPT !.output = AppendOutput(@, <<data.message[1].text>>),
                    !.stdinEnded = TRUE, !.tests = <<>>]

\* The finished branch of onData: appendOutput(data.message) throws unless the
\* message is a string; stdin is ended after it.
FinishedBranch(data, st) ==
    IF data.message = Null \/ data.message[1].type # "string"
    THEN [st EXCEPT !.threw = TRUE]
    ELSE [st EXCEPT !.output = AppendOutput(@, <<data.message[1].text>>),
                    !.stdinEnded = TRUE]

\* onData that holds a started event back and reports it with the result of its
\* test.
OnDataDeferred(data, st) ==
    IF Truthy(data.started) THEN st
    ELSE IF Truthy(data.inform) THEN Inform(data, st)
    ELSE IF Truthy(data.passed) \/ Truthy(data.failed) \/ Truthy(data.errored)
    THEN LET op == IF Truthy(data.passed) THEN "passed"
                   ELSE IF Truthy(data.failed) THEN "failed" ELSE "errored"
             identity == IF Truthy(data.passed) THEN data.passed
                         ELSE IF Truthy(data.failed) THEN data.failed ELSE data.errored
         IN  Terminal(op, identity, data,
                [st EXCEPT !.reports =
                    Append(@, Report("started", Lookup(st.tests, identity), <<>>, Null))])
    ELSE IF Truthy(data.finished) THEN FinishedBranch(data, st)
    ELSE IF Truthy(data.coverage) THEN AddCoverage(data, st)
    ELSE st

\* Runner.onData
OnData(data, st) ==
    IF Truthy(data.started)
    THEN [st EXCEPT !.reports =
            Append(@, Report("started", Lookup(st.tests, data.started), <<>>, Null))]
    ELSE IF Truthy(data.inform) THEN Inform(data, st)
    ELSE IF Truthy(data.passed) THEN Terminal("passed", data.passed, data, st)
    ELSE IF Truthy(data.failed) THEN Terminal("failed", data.failed, data, st)
    ELSE IF Truthy(data.errored) THEN Terminal("errored", data.errored, data, st)
    ELSE IF Truthy(data.finished) THEN FinishedBranch(data, st)
    ELSE IF Truthy(data.coverage) THEN AddCoverage(data, st)
    ELSE st

\* if (!code): true of null too.
IsFalsy(code) == code = Null \/ code[1] = 0

\* if (code == 0): null == 0 is false.
IsZero(code) == code # Null /\ code[1] = 0

\* The executor of this.finished, run by the 'exit' listener.
Settle(code) ==
    IF IsZero(code) THEN [state |-> "resolved", code |-> code, error |-> <<>>]
    ELSE [state |-> "rejected", code |-> code, error |-> ExitError(code)]
Pending == [state |-> "pending", code |-> Null, error |-> <<>>]

\* The line the stdout pipe hands to ndjson.parse() next: the oldest.
NextLine(w) == Head(w)
RestLines(w) == Tail(w)

\* The keys in reverse property order.
RunMessageReversed(ts) == [run |-> [i \in 1..Len(ts) |-> ts[Len(ts) + 1 - i].key]]

\* {run: Object.keys(this.tests)}
RunMessage(ts) == [run |-> ObjectKeys(ts)]

----------------------------------------------------------------------------
(* The session. *)

hostVars == <<wire, emitted>>
parseVars == <<consumed, parser, applied>>
runVars == <<tests, reports, stdinEnded>>
exitVars == <<exitSeen, finished, settles>>
callVars == <<token, cancelHit, disposeCalls>>

InitWith(prototypes) ==
    /\ pc = "new"
    /\ tests0 \in TestsInputs
    /\ tests = tests0
    /\ prototype \in prototypes
    /\ child = "none"
    /\ exitCode = Null
    /\ exitSeen = FALSE
    /\ killed = FALSE
    /\ finished = Pending
    /\ settles = 0
    /\ token = "none"
    /\ cancelHit = FALSE
    /\ disposeCalls = 0
    /\ errorsSeen = 0
    /\ wire = <<>>
    /\ emitted = <<>>
    /\ consumed = <<>>
    /\ parser = "ok"
    /\ uncaught = 0
    /\ applied = <<>>
    /\ reports = <<>>
    /\ output = <<>>
    /\ stdinLog = <<>>
    /\ stdinEnded = FALSE
    /\ stdinWrite = "none"

\* The caller builds the tests object as an object literal.
Init == InitWith({ObjectPrototype})

\* The Runner exists.
Constructed == pc \in {"open", "awaiting", "done"}

\* Runner.open whose await loadEnvironment(...) rejects: nothing is spawned and
\* no Runner is constructed.
OpenRejects ==
    /\ pc = "new"
    /\ pc' = "rejected"
    /\ UNCHANGED <<tests0, prototype, stdinWrite, child, exitCode, killed, errorsSeen,
                   uncaught, output, stdinLog>>
    /\ UNCHANGED <<hostVars, parseVars, runVars, exitVars, callVars>>

\* Runner.open and the constructor it ends with: spawn the host, register the
\* cancellation listener, wire the streams, write the run message.  A spawn that
\* fails leaves a child that emits 'error' and never 'exit', and no process
\* that takes the run message.  this.output's 'data' listener writes the run
\* message to child.stdin inside the constructor.
Open(spawned, withToken) ==
    /\ pc = "new"
    /\ pc' = "open"
    /\ child' = IF spawned THEN "running" ELSE "spawnFailed"
    /\ token' = IF withToken THEN "armed" ELSE "none"
    /\ stdinLog' = Append(stdinLog, RunMessage(tests))
    /\ stdinWrite' = IF spawned THEN "written" ELSE "none"
    /\ UNCHANGED <<tests0, prototype, exitCode, killed, errorsSeen, uncaught, output, cancelHit,
                   disposeCalls>>
    /\ UNCHANGED <<hostVars, parseVars, runVars, exitVars>>

\* child.stdin emits 'error' (write EPIPE) when the process has ended without
\* reading the run message; child.stdin has no 'error' listener, so the error is
\* uncaught.  A process that has read its stdin gives no such error.
StdinError ==
    /\ stdinWrite = "written"
    /\ child = "terminated"
    /\ stdinWrite' = "failed"
    /\ uncaught' = uncaught + 1
    /\ UNCHANGED <<pc, tests0, prototype, child, exitCode, killed, errorsSeen, output,
                   stdinLog>>
    /\ UNCHANGED <<hostVars, parseVars, runVars, exitVars, callVars>>

\* The chunks of the host's stderr among the output calls.
StderrChunks(out) == {i \in 1..Len(out) : out[i].text = NormalizeLines(StderrText)}

\* What the spawned child has given so far: lines of its stdout, chunks of its
\* stderr, runtime errors.
ChildEvents == Len(emitted) + Cardinality(StderrChunks(output)) + errorsSeen

\* The host writes one line to its stdout.
HostEmit(line) ==
    /\ child = "running"
    /\ ChildEvents < MaxLines
    /\ wire' = Append(wire, line)
    /\ emitted' = Append(emitted, line)
    /\ UNCHANGED <<pc, tests0, prototype, stdinWrite, child, exitCode, killed, errorsSeen, uncaught, output,
                   stdinLog>>
    /\ UNCHANGED <<parseVars, runVars, exitVars, callVars>>

\* The host process ends by itself, or by a signal that is not the Runner's.
HostExit(code) ==
    /\ child = "running"
    /\ child' = "terminated"
    /\ exitCode' = code
    /\ UNCHANGED <<pc, tests0, prototype, stdinWrite, killed, errorsSeen, uncaught, output, stdinLog>>
    /\ UNCHANGED <<hostVars, parseVars, runVars, exitVars, callVars>>

\* A kill() that ends the process again, whatever its state.
KillAgain ==
    /\ child' = "terminated"
    /\ exitCode' = Null
    /\ killed' = TRUE

\* A kill() that sends nothing.
KillNothing == UNCHANGED <<child, exitCode, killed>>

\* child.kill(): SIGTERM ends a live process, which then reports a null code.
\* Until 'exit' is emitted the child keeps its process handle: the signal is
\* sent, and child.killed set, also when the process has ended already, which
\* changes neither the process nor its code.  After 'exit', or without a
\* spawned process, kill() sends nothing.
Kill ==
    /\ child' = IF child = "running" THEN "terminated" ELSE child
    /\ exitCode' = IF child = "running" THEN Null ELSE exitCode
    /\ killed' = (killed \/ child = "running" \/ (child = "terminated" /\ ~exitSeen))

\* The listener registered with cancellation.onCancellationRequested.
Cancel ==
    /\ token = "armed"
    /\ token' = "fired"
    /\ cancelHit' = (child = "running")
    /\ Kill
    /\ UNCHANGED <<pc, tests0, prototype, stdinWrite, errorsSeen, uncaught, output, stdinLog, disposeCalls>>
    /\ UNCHANGED <<hostVars, parseVars, runVars, exitVars>>

\* Runner.dispose, which may be called any number of times.
Dispose ==
    /\ Constructed
    /\ Kill
    /\ UNCHANGED <<pc, tests0, prototype, stdinWrite, errorsSeen, uncaught, output, stdinLog, token, cancelHit,
                   disposeCalls>>
    /\ UNCHANGED <<hostVars, parseVars, runVars, exitVars>>

\* Runner.dispose, its calls counted.
DisposeCall ==
    /\ Constructed
    /\ disposeCalls < MaxDispose
    /\ disposeCalls' = disposeCalls + 1
    /\ Kill
    /\ UNCHANGED <<pc, tests0, prototype, stdinWrite, errorsSeen, uncaught, output, stdinLog, token, cancelHit>>
    /\ UNCHANGED <<hostVars, parseVars, runVars, exitVars>>

\* The child's 'error' listener, for a runtime error of a live child.
ChildRuntimeError ==
    /\ child = "running"
    /\ ChildEvents < MaxLines
    /\ errorsSeen' = errorsSeen + 1
    /\ output' = AppendOutput(output, ErrorText)
    /\ UNCHANGED <<pc, tests0, prototype, stdinWrite, child, exitCode, killed, uncaught,
                   stdinLog>>
    /\ UNCHANGED <<hostVars, parseVars, runVars, exitVars, callVars>>

\* The child's 'error' listener, once for a failed spawn.
ChildError ==
    /\ child = "spawnFailed" /\ errorsSeen = 0
    /\ errorsSeen' = errorsSeen + 1
    /\ output' = AppendOutput(output, ErrorText)
    /\ UNCHANGED <<pc, tests0, prototype, stdinWrite, child, exitCode, killed, uncaught, stdinLog>>
    /\ UNCHANGED <<hostVars, parseVars, runVars, exitVars, callVars>>

\* The child's stderr 'data' listener: appendOutput(data.toString()).  A chunk
\* the host wrote may arrive after the process has ended.
StderrData ==
    /\ child \in {"running", "terminated"}
    /\ ChildEvents < MaxLines
    /\ output' = AppendOutput(output, StderrText)
    /\ UNCHANGED <<pc, tests0, prototype, stdinWrite, child, exitCode, killed, errorsSeen,
                   uncaught, stdinLog>>
    /\ UNCHANGED <<hostVars, parseVars, runVars, exitVars, callVars>>

\* The child's 'exit' listener: log the code, settle this.finished.  A rejection
\* before run() awaits this.finished has no handler: an unhandled rejection.
ExitEvent ==
    /\ child = "terminated"
    /\ ~exitSeen
    /\ exitSeen' = TRUE
    /\ output' = AppendOutput(output, ExitLine(exitCode))
    /\ finished' = IF finished.state = "pending" THEN Settle(exitCode) ELSE finished
    /\ settles' = settles + 1
    /\ uncaught' = IF pc = "open" /\ Settle(exitCode).state = "rejected"
                   THEN uncaught + 1 ELSE uncaught
    /\ UNCHANGED <<pc, tests0, prototype, stdinWrite, child, exitCode, killed, errorsSeen,
                   stdinLog>>
    /\ UNCHANGED <<hostVars, parseVars, runVars, callVars>>

\* stdout.pipe(ndjson.parse()).on('data', onData): the parser reads the next line.
\* A line that is no JSON makes it emit 'error', for which nothing listens: the
\* error is uncaught and the stream reads no further line.  So does an exception
\* thrown by onData.
Deliver ==
    /\ Constructed
    /\ parser = "ok"
    /\ wire # <<>>
    /\ LET line == NextLine(wire)
           st == OnData(line.data, Effect(tests, reports, output, stdinEnded, FALSE))
       IN  /\ wire' = RestLines(wire)
           /\ consumed' = Append(consumed, line)
           /\ IF line.malformed
              THEN /\ parser' = "broken"
                   /\ uncaught' = uncaught + 1
                   /\ UNCHANGED <<applied, tests, reports, output, stdinEnded>>
              ELSE /\ applied' = Append(applied, line.data)
                   /\ tests' = st.tests
                   /\ reports' = st.reports
                   /\ output' = st.output
                   /\ stdinEnded' = st.stdinEnded
                   /\ parser' = IF st.threw THEN "broken" ELSE parser
                   /\ uncaught' = IF st.threw THEN uncaught + 1 ELSE uncaught
    /\ UNCHANGED <<pc, tests0, prototype, stdinWrite, child, exitCode, killed, errorsSeen, stdinLog, emitted>>
    /\ UNCHANGED <<exitVars, callVars>>

\* Runner.run up to its await.
RunStart ==
    /\ pc = "open"
    /\ pc' = "awaiting"
    /\ output' = AppendOutput(output, RunningLine)
    /\ UNCHANGED <<tests0, prototype, stdinWrite, child, exitCode, killed, errorsSeen, uncaught, stdinLog>>
    /\ UNCHANGED <<hostVars, parseVars, runVars, exitVars, callVars>>

\* Runner.run after its await: the catch swallows a rejection, the finally block
\* skips what remains and ends the run.
RunEpilogue ==
    /\ pc = "awaiting"
    /\ finished.state # "pending"
    /\ pc' = "done"
    /\ reports' = reports \o SkipRemainingTests(tests)
                          \o <<Report("end", Undefined, <<>>, Null)>>
    /\ UNCHANGED <<tests0, prototype, stdinWrite, tests, stdinEnded, child, exitCode, killed, errorsSeen,
                   uncaught, output, stdinLog>>
    /\ UNCHANGED <<hostVars, parseVars, exitVars, callVars>>

Next ==
    \/ OpenRejects
    \/ \E spawned \in BOOLEAN, withToken \in BOOLEAN : Open(spawned, withToken)
    \/ StdinError
    \/ StderrData
    \/ ChildRuntimeError
    \/ \E line \in Lines : HostEmit(line)
    \/ \E code \in ExitCodes : HostExit(code)
    \/ Cancel
    \/ Dispose
    \/ ChildError
    \/ ExitEvent
    \/ Deliver
    \/ RunStart
    \/ RunEpilogue

Spec == Init /\ [][Next]_vars

\* The event loop runs a callback that is due; the caller calls run(); the host,
\* once spawned, ends.
Fairness ==
    /\ WF_vars(\E spawned \in BOOLEAN, withToken \in BOOLEAN : Open(spawned, withToken))
    /\ WF_vars(\E code \in ExitCodes : HostExit(code))
    /\ WF_vars(ExitEvent)
    /\ WF_vars(ChildError)
    /\ WF_vars(Deliver)
    /\ WF_vars(RunStart)
    /\ WF_vars(RunEpilogue)

FairSpec == Init /\ [][Next]_vars /\ Fairness

\* A host that speaks the protocol writes its events after it has read the run
\* message: only a host that wrote nothing may have left it unread.
StdinErrorUnread == emitted = <<>> /\ StdinError

\* A session of a spawned host that speaks the protocol and ends by itself or by
\* dispose(), without cancellation token, with dispose() calls counted.
EventNext ==
    \/ \E spawned \in {TRUE}, withToken \in {FALSE} : Open(spawned, withToken)
    \/ StdinErrorUnread
    \/ StderrData
    \/ ChildRuntimeError
    \/ \E line \in EventLines : HostEmit(line)
    \/ \E code \in OwnExitCodes : HostExit(code)
    \/ DisposeCall
    \/ ExitEvent
    \/ Deliver
    \/ RunStart
    \/ RunEpilogue

EventSpec == Init /\ [][EventNext]_vars

\* The host writes a single line.
HostEmitOne(line) == emitted = <<>> /\ HostEmit(line)

\* One event with messages or counts, applied by onData.
PureNext ==
    \/ \E spawned \in {TRUE}, withToken \in {FALSE} : Open(spawned, withToken)
    \/ StderrData
    \/ ChildRuntimeError
    \/ \E line \in PureLines : HostEmitOne(line)
    \/ Deliver

\* The caller may build the tests object either way.
PureInit == InitWith(Prototypes)
PureSpec == PureInit /\ [][PureNext]_vars

----------------------------------------------------------------------------
(* Vocabulary of the properties. *)

TerminalOps == {"passed", "failed", "errored"}
OutcomeOps == TerminalOps \cup {"skipped"}
Items0 == {tests0[i].item : i \in 1..Len(tests0)}

\* Positions in a report log of the reports with an op of ops against item.
ReportsOf(log, ops, item) == {k \in 1..Len(log) : log[k].op \in ops /\ log[k].item = item}
HasOp(log, op) == \E k \in 1..Len(log) : log[k].op = op

\* The output channel holds the "exited with code <code>" line of this code.
ExitLineLogged(code) ==
    \E j \in 1..Len(output) :
        output[j].text = <<"Test host exited with code ",
                           IF code = Null THEN "null" ELSE ToString(code[1]), "CRLF">>

\* The records of the lines before the first line that is no JSON.
RECURSIVE DecodedPrefix(_)
DecodedPrefix(ls) ==
    IF ls = <<>> \/ Head(ls).malformed THEN <<>>
    ELSE <<Head(ls).data>> \o DecodedPrefix(Tail(ls))

----------------------------------------------------------------------------
(* Vocabulary of the properties about single events. *)

\* The step hands a record to onData; Event is that record.
Applying == applied' # applied
Event == applied'[Len(applied')]

IsPending(ts, identity) == \E i \in 1..Len(ts) : ts[i].key = identity

\* The branch of onData a record takes, by the first tag it carries.
IsStartedEvent(d) == Truthy(d.started)
IsInformEvent(d) == ~Truthy(d.started) /\ Truthy(d.inform)
IsTerminalEvent(d) ==
    /\ ~Truthy(d.started) /\ ~Truthy(d.inform)
    /\ Truthy(d.passed) \/ Truthy(d.failed) \/ Truthy(d.errored)
TerminalOp(d) ==
    IF Truthy(d.passed) THEN "passed" ELSE IF Truthy(d.failed) THEN "failed" ELSE "errored"
TerminalId(d) ==
    IF Truthy(d.passed) THEN d.passed ELSE IF Truthy(d.failed) THEN d.failed ELSE d.errored
IsFinishedEvent(d) ==
    /\ ~Truthy(d.started) /\ ~Truthy(d.inform) /\ ~Truthy(d.passed)
    /\ ~Truthy(d.failed) /\ ~Truthy(d.errored) /\ Truthy(d.finished)
IsCoverageEvent(d) ==
    /\ ~Truthy(d.started) /\ ~Truthy(d.inform) /\ ~Truthy(d.passed) /\ ~Truthy(d.failed)
    /\ ~Truthy(d.errored) /\ ~Truthy(d.finished) /\ Truthy(d.coverage)

\* The messages a record carries, as the host wrote them.
SourceMessages(d) == IF d.message # Null THEN <<d.message[1]>>
                     ELSE IF d.messages # Null THEN d.messages[1] ELSE <<>>

\* The messages are JSON objects whose locations have a 1-based line.
WellFormedMessages(d) ==
    \A k \in 1..Len(SourceMessages(d)) :
        /\ SourceMessages(d)[k].type = "object"
        /\ SourceMessages(d)[k].location # Null => SourceMessages(d)[k].location[1].line >= 1

\* The output written by events: the appendOutput calls other than those of the
\* child's stderr and 'error' listeners.
EventOutput ==
    SelectSeq(output, LAMBDA o : o.text \notin {NormalizeLines(StderrText),
                                                NormalizeLines(ErrorText)})

\* The position a message's location is to be reported at.
ExpectedLocation(m) ==
    IF m.location = Null THEN Null
    ELSE <<[path |-> m.location[1].path,
            line |-> m.location[1].line - 1,
            column |-> IF m.location[1].column = Null THEN 0 ELSE m.location[1].column[1]]>>

----------------------------------------------------------------------------
(* C1 *)

\* C1: once run() has ended the run, every requested identity has exactly one
\* report among passed, failed, errored and skipped, and no such report names an
\* identity that was not requested.  A report names the identity whose test it
\* is made against; one made against the undefined handle names none.
ReportedExactlyOnce ==
    pc = "done" =>
        /\ \A item \in Items0 : Cardinality(ReportsOf(reports, OutcomeOps, item)) = 1
        /\ \A k \in 1..Len(reports) :
                reports[k].op \in OutcomeOps => reports[k].item \in Items0 \cup {Undefined}

(* C2 *)

\* C2: a test removed from the pending set by a passed, failed or errored event
\* is at no later point reported skipped.
TerminalNeverSkipped ==
    \A i, j \in 1..Len(reports) :
        (i < j /\ reports[i].op \in TerminalOps /\ reports[i].item # Undefined)
            => ~(reports[j].op = "skipped" /\ reports[j].item = reports[i].item)

TerminalThenEpilogue ==
    /\ pc = "done"
    /\ ReportsOf(reports, TerminalOps, TestItem("A")) # {}
    /\ ReportsOf(reports, {"skipped"}, TestItem("B")) # {}

(* C3 *)

\* C3: under fairness every session whose Runner was constructed reaches the
\* epilogue of run(): the remaining tests are skipped and the run is ended.
RunReachesEpilogue == (pc = "open") ~> (pc = "done")

(* C4 *)

\* C4: this.finished is resolved exactly when the process exited with code 0;
\* for any other code, null included, it is rejected with an error that carries
\* the code.
FinishedIffZero ==
    /\ ~exitSeen => finished.state = "pending"
    /\ exitSeen =>
        /\ finished.state = "resolved" <=> exitCode = <<0>>
        /\ exitCode # <<0>> =>
            /\ finished.state = "rejected"
            /\ finished.code = exitCode
            /\ finished.error = <<"Test host exited with code ",
                                  IF exitCode = <<>> THEN "null" ELSE ToString(exitCode[1])>>

RejectedWithNullCode == exitSeen /\ exitCode = Null /\ finished.state = "rejected"

(* C5 *)

\* The outcome is produced at most once; a test is reported skipped, and the run
\* ended, only after the outcome was produced and run() has observed it; all
\* skipped reports precede the one testRun.end().
OneShotOutcome ==
    /\ settles <= 1
    /\ (HasOp(reports, "skipped") \/ HasOp(reports, "end")) =>
            settles = 1 /\ exitSeen /\ finished.state # "pending"
    /\ Cardinality({k \in 1..Len(reports) : reports[k].op = "end"}) <= 1
    /\ \A i, j \in 1..Len(reports) :
            (reports[i].op = "end" /\ reports[j].op = "skipped") => j < i
    /\ pc = "done" <=> HasOp(reports, "end")

\* C5: the session outcome is produced exactly once per session: never twice,
\* and once in every session whose Runner was constructed; no test is reported
\* skipped before run() has observed the outcome; all skipped reports precede
\* the one testRun.end().
OutcomeOncePerSession == []OneShotOutcome /\ ((pc = "open") ~> (settles = 1))

(* C6 *)

\* C6: when the cancellation listener runs while the process is alive, the
\* process is killed, its exit has a null code and rejects this.finished, and a
\* run that has ended has ended through the epilogue: every requested test has
\* either a terminal report or a skipped report before the one end().
CancellationRejects ==
    cancelHit =>
        /\ killed /\ child = "terminated" /\ exitCode = Null
        /\ exitSeen => finished.state = "rejected" /\ finished.code = Null
        /\ pc = "done" =>
            /\ finished.state = "rejected"
            /\ \E e \in 1..Len(reports) :
                /\ reports[e].op = "end"
                /\ \A item \in Items0 :
                    LET before == SubSeq(reports, 1, e - 1)
                    IN  Cardinality(ReportsOf(before, OutcomeOps, item)) = 1

CancelledRunEnded == cancelHit /\ pc = "done" /\ HasOp(reports, "skipped")

(* C7 *)

\* C7: when run() ends a session whose host exited with a non-zero or null code,
\* the reports made so far are kept as they are, a requested test with a terminal
\* report gets no skipped report, every other requested test gets exactly one,
\* the rejection is not raised (the run is ended), and the output holds the
\* "exited with code <code>" line.
AbnormalExitEpilogue ==
    [][(pc = "awaiting" /\ pc' = "done" /\ finished.state = "rejected") =>
        /\ exitCode # <<0>>
        /\ SubSeq(reports', 1, Len(reports)) = reports
        /\ reports'[Len(reports')].op = "end"
        /\ \A item \in Items0 :
            IF ReportsOf(reports, TerminalOps, item) # {}
            THEN /\ ReportsOf(reports', TerminalOps, item) = ReportsOf(reports, TerminalOps, item)
                 /\ ReportsOf(reports', {"skipped"}, item) = {}
            ELSE Cardinality(ReportsOf(reports', {"skipped"}, item)) = 1
        /\ finished' = finished
        /\ ExitLineLogged(exitCode)
      ]_vars

PartialThenExitOne ==
    /\ pc = "done"
    /\ finished.state = "rejected" /\ exitCode = <<1>>
    /\ Len(tests0) = 2
    /\ ReportsOf(reports, {"passed"}, TestItem("A")) # {}
    /\ ReportsOf(reports, {"skipped"}, TestItem("B")) # {}

(* C8 *)

\* C8: a line that is no JSON is logged to the output channel and does no harm:
\* no error goes uncaught and the parser stays able to decode the lines after it.
MalformedLineIsInert ==
    (\E i \in 1..Len(consumed) : consumed[i].malformed) =>
        /\ parser = "ok"
        /\ uncaught = 0
        /\ \E j \in 1..Len(output) : output[j].text[1] = "Could not parse row"

(* C9 *)

\* The lines the parser has taken off the child's stdout: those the host wrote
\* less those still in flight.
LinesRead == SubSeq(emitted, 1, Len(emitted) - Len(wire))

\* The started and terminal events among the lines read, in the order the host
\* wrote them, and the started and terminal reports the test run has received.
ReportingEvents ==
    SelectSeq(DecodedPrefix(LinesRead), LAMBDA d : IsStartedEvent(d) \/ IsTerminalEvent(d))
EventReports == SelectSeq(reports, LAMBDA x : x.op \in TerminalOps \cup {"started"})

EventOp(d) == IF IsStartedEvent(d) THEN "started" ELSE TerminalOp(d)
EventId(d) == IF IsStartedEvent(d) THEN d.started ELSE TerminalId(d)
TakenBefore(events, k, identity) ==
    \E j \in 1..(k - 1) : IsTerminalEvent(events[j]) /\ TerminalId(events[j]) = identity
\* The handle the k-th event is to be reported against: the requested test's,
\* unless an earlier terminal event took it.
EventItem(events, k) ==
    IF IsPending(tests0, EventId(events[k])) /\ ~TakenBefore(events, k, EventId(events[k]))
    THEN TestItem(EventId(events[k])) ELSE Undefined

\* C9: in every state, whatever handler ran last, the started and terminal
\* reports are those of the events among the lines read so far, one report per
\* event, in the order the host wrote the lines, and the pending tests are the
\* requested ones less those a terminal event among these lines names: no event
\* is skipped, held back, merged with another or applied in part.
WireOrder ==
    /\ Len(EventReports) = Len(ReportingEvents)
    /\ \A k \in 1..Len(ReportingEvents) :
            /\ k <= Len(EventReports)
            /\ EventReports[k].op = EventOp(ReportingEvents[k])
            /\ EventReports[k].item = EventItem(ReportingEvents, k)
    /\ tests = SelectSeq(tests0, LAMBDA e :
                    ~TakenBefore(ReportingEvents, Len(ReportingEvents) + 1, e.key))

TwoEventsApplied ==
    /\ Len(ReportingEvents) = 2
    /\ EventOp(ReportingEvents[1]) = "started"
    /\ EventOp(ReportingEvents[2]) = "passed"
    /\ Len(EventReports) = 2

(* C10 *)

\* C10: the Runner encodes one run message per session, which lists the keys of
\* the tests object in its property order; it is on the child's stdin in every
\* state in which the subprocess has been started, hence before any line of the
\* host is read, and without a subprocess nothing is sent.
RunMessageOnce ==
    /\ ~Constructed => stdinLog = <<>> /\ stdinWrite = "none" /\ consumed = <<>>
    /\ Constructed =>
        /\ Len(stdinLog) = 1
        /\ Len(stdinLog[1].run) = Len(tests0)
        /\ \A i \in 1..Len(tests0) : stdinLog[1].run[i] = tests0[i].key
    /\ child \in {"running", "terminated"} <=> stdinWrite \in {"written", "failed"}
    /\ (emitted # <<>> \/ consumed # <<>>) => stdinWrite \in {"written", "failed"}

RunMessageSentBeforeEvents ==
    /\ Constructed /\ Len(tests0) = 2 /\ stdinWrite = "written"
    /\ emitted # <<>> /\ consumed = <<>>

----------------------------------------------------------------------------
(* C11 *)

\* C11: a dispose() call raises nothing; on a live process it ends the process,
\* on a process that has ended it changes neither the process nor its exit
\* code; a process that was killed is never ended again, and no call produces an
\* exit event or a second outcome.
DisposeIdempotent ==
    [][/\ disposeCalls' # disposeCalls =>
            /\ uncaught' = uncaught
            /\ child = "running" => child' = "terminated" /\ killed'
            /\ child # "running" => child' = child /\ exitCode' = exitCode
            /\ exitSeen => killed' = killed
            /\ exitSeen' = exitSeen /\ finished' = finished /\ settles' = settles
       /\ killed => child' = child /\ exitCode' = exitCode
       /\ settles' <= 1
      ]_vars

DisposedTwice ==
    /\ disposeCalls = 2 /\ exitSeen /\ settles = 1
    /\ child = "terminated" /\ exitCode = <<0>>

(* C12 *)

\* C12: a finished event that carries its message leaves the pending tests, the
\* reports and the run's position alone, appends the message to the output and
\* ends the child's stdin; and when run() ends the run, every test still pending
\* is reported skipped.
FinishedKeepsPending ==
    [][/\ (Applying /\ IsFinishedEvent(Event) /\ Event.message # Null
                    /\ Event.message[1].type = "string") =>
            /\ tests' = tests /\ reports' = reports /\ pc' = pc /\ finished' = finished
            /\ output' = Append(output, [text |-> <<Event.message[1].text>>,
                                         location |-> <<>>, test |-> "undefined"])
            /\ stdinEnded'
       /\ (pc = "awaiting" /\ pc' = "done") =>
            \A i \in 1..Len(tests) :
                \E k \in (Len(reports) + 1)..Len(reports') :
                    reports'[k].op = "skipped" /\ reports'[k].item = tests[i].item
      ]_vars

FinishedThenSkipped ==
    /\ pc = "done" /\ stdinEnded
    /\ applied # <<>> /\ IsFinishedEvent(applied[1])
    /\ ReportsOf(reports, {"skipped"}, TestItem("A")) # {}
    /\ ReportsOf(reports, TerminalOps, TestItem("A")) = {}

(* C13 *)

\* C13: a coverage event with counts is followed by a coverage record that has
\* one entry per slot of counts that is not null, in slot order, with that
\* slot's count, a count of 0 included, and no entry for a null slot.  The entry
\* of the slot at index j is the one reported at line j - 1.
CoverageEntries ==
    (Len(applied) = 1 /\ IsCoverageEvent(applied[1]) /\ applied[1].counts # <<>>) =>
        /\ Len(reports) = 1 /\ reports[1].op = "addCoverage"
        /\ LET counts == applied[1].counts[1]
               entries == reports[1].messages
               slots == {j \in 0..(Len(counts) - 1) : counts[j + 1] # <<>>}
           IN  /\ Len(entries) = Cardinality(slots)
               /\ \A j \in slots : \E k \in 1..Len(entries) :
                        entries[k].line = j - 1 /\ entries[k].count = counts[j + 1][1]
               /\ \A k, l \in 1..Len(entries) : k < l => entries[k].line < entries[l].line

(* C14 *)

\* C14: the message resolved for a failed or errored event is diff-style exactly
\* when the message carries an actual and an expected value, whatever the values.
DiffWhenBothPresent ==
    (Len(applied) = 1 /\ IsTerminalEvent(applied[1]) /\ Len(reports) = 1) =>
        LET src == SourceMessages(applied[1])
            out == reports[1].messages
        IN  /\ Len(out) = Len(src)
            /\ \A k \in 1..Len(src) :
                    /\ (src[k].actual # "undefined" /\ src[k].expected # "undefined")
                            => out[k].kind = "diff"
                    /\ (src[k].actual = "undefined" /\ src[k].expected = "undefined")
                            => out[k].kind = "plain"

(* C15 *)

\* C15: a resolved message is reported at line location.line - 1 and column
\* location.column, or column 0 without one; a message without a location has
\* none.  This holds of the messages of failed and errored reports and of the
\* output of inform events, for messages that are objects with a 1-based line.
LocationMapping ==
    (Len(applied) = 1 /\ WellFormedMessages(applied[1])) =>
        LET src == SourceMessages(applied[1])
        IN  /\ (IsTerminalEvent(applied[1]) /\ Len(reports) = 1) =>
                    /\ Len(reports[1].messages) = Len(src)
                    /\ \A k \in 1..Len(src) :
                            reports[1].messages[k].location = ExpectedLocation(src[k])
            /\ IsInformEvent(applied[1]) =>
                    /\ Len(EventOutput) = Len(src)
                    /\ \A k \in 1..Len(src) :
                            EventOutput[k].location = ExpectedLocation(src[k])

LineTenReportedAtNine ==
    /\ Len(applied) = 1 /\ IsTerminalEvent(applied[1]) /\ Len(reports) = 1
    /\ SourceMessages(applied[1])[1].location # <<>>
    /\ SourceMessages(applied[1])[1].location[1].line = 10
    /\ SourceMessages(applied[1])[1].location[1].column = <<>>
    /\ reports[1].messages[1].location[1].line = 9
    /\ reports[1].messages[1].location[1].column = 0

(* C16 *)

\* C16: a passed, failed or errored event for a pending identity removes that
\* identity alone from the pending tests and reports the matching result against
\* the test requested under it, with the event's duration; the pending tests
\* change in no other step, and only by losing one entry.
TerminalRemovesOnce ==
    [][/\ (Applying /\ IsTerminalEvent(Event) /\ IsPending(tests, TerminalId(Event))) =>
            /\ tests' = SelectSeq(tests, LAMBDA e : e.key # TerminalId(Event))
            /\ Len(tests') = Len(tests) - 1
            /\ Len(reports') = Len(reports) + 1
            /\ SubSeq(reports', 1, Len(reports)) = reports
            /\ reports'[Len(reports')].op = TerminalOp(Event)
            /\ reports'[Len(reports')].duration = Event.duration
            /\ \E i \in 1..Len(tests0) :
                    /\ tests0[i].key = TerminalId(Event)
                    /\ reports'[Len(reports')].item = tests0[i].item
       /\ tests' # tests =>
            /\ Applying /\ IsTerminalEvent(Event)
            /\ Len(tests') = Len(tests) - 1
            /\ Range(tests') \subseteq Range(tests)
      ]_vars

PassedARemovedBKept ==
    /\ \E k \in 1..Len(reports) :
            reports[k].op = "passed" /\ reports[k].item = TestItem("A")
                                     /\ reports[k].duration = <<12>>
    /\ ~IsPending(tests, "A") /\ IsPending(tests, "B")

(* C17 *)

\* C17: a passed, failed or errored event for an identity that is not pending
\* (its messages well formed) raises nothing, leaves the pending tests as they
\* are and reports its result against the undefined handle.
UnknownTerminalIsInert ==
    [][(Applying /\ IsTerminalEvent(Event) /\ ~IsPending(tests, TerminalId(Event))
                 /\ WellFormedMessages(Event)) =>
            /\ tests' = tests
            /\ uncaught' = uncaught /\ parser' = parser
            /\ Len(reports') = Len(reports) + 1
            /\ SubSeq(reports', 1, Len(reports)) = reports
            /\ reports'[Len(reports')].op = TerminalOp(Event)
            /\ reports'[Len(reports')].item = "undefined"
      ]_vars

(* C18 *)

\* C18: a started event leaves the pending tests alone and only reports the
\* identity's test as started; an inform event leaves the pending tests and the
\* reports alone and only appends one output per message, for the identity's test.
StartedInformKeepPending ==
    [][/\ (Applying /\ IsStartedEvent(Event)) =>
            /\ tests' = tests /\ output' = output /\ stdinEnded' = stdinEnded
            /\ Len(reports') = Len(reports) + 1
            /\ SubSeq(reports', 1, Len(reports)) = reports
            /\ reports'[Len(reports')].op = "started"
            /\ \A i \in 1..Len(tests) : tests[i].key = Event.started =>
                    reports'[Len(reports')].item = tests[i].item
       /\ (Applying /\ IsInformEvent(Event)) =>
            /\ tests' = tests /\ reports' = reports /\ stdinEnded' = stdinEnded
            /\ SubSeq(output', 1, Len(output)) = output
            /\ Len(output') <= Len(output) + Len(SourceMessages(Event))
            /\ uncaught' = uncaught => Len(output') = Len(output) + Len(SourceMessages(Event))
            /\ \A k \in (Len(output) + 1)..Len(output') :
                    \A i \in 1..Len(tests) : tests[i].key = Event.inform =>
                        output'[k].test = tests[i].item
      ]_vars

StartedInformedStillPending ==
    /\ Len(applied) = 2
    /\ IsStartedEvent(applied[1]) /\ IsInformEvent(applied[2])
    /\ IsPending(tests, "A")
    /\ Len(reports) = 1 /\ Len(output) >= 1

(* C19 *)

\* C19: testRun.end() is the last call made on the run: no report follows it.
NothingAfterEnd ==
    \A i \in 1..Len(reports) : reports[i].op = "end" => i = Len(reports)

(* C20 *)

\* C20: every slot of counts that holds a count gets an entry at a line that is
\* not negative, slot 0 included, so that addCoverage never fails on a position:
\* a coverage event with counts raises nothing and its record is added.
CoverageLinesValid ==
    (Len(applied) = 1 /\ IsCoverageEvent(applied[1]) /\ applied[1].counts # <<>>) =>
        /\ uncaught = 0 /\ parser = "ok"
        /\ \E i \in 1..Len(reports) :
                /\ reports[i].op = "addCoverage"
                /\ \A k \in 1..Len(reports[i].messages) : reports[i].messages[k].line >= 0

====
